---------------------------- MODULE Spec2Model ----------------------------
(***************************************************************************)
(* Model of src/src/cryptography/sha.rs: the padding helper (sha_common), *)
(* the SHA-1 and SHA-256 compression functions, the two streaming hashers *)
(* and the public dispatcher `hash`.                                       *)
(*                                                                         *)
(* A u32 is the pair <<hi, lo>> of its 16-bit halves, a byte is 0..255, a  *)
(* slice is a sequence indexed from 1 (source index i is model index i+1). *)
(***************************************************************************)
EXTENDS Integers, Sequences, FiniteSets, TLC

(***************************************************************************)
(* Bounds of the model.                                                    *)
(***************************************************************************)
\* longest message, in bytes, fed to the hashers
MaxLen == 130
\* largest message_length handed to pad_input on its own
MaxPadLength == 1030

(***************************************************************************)
(* u32 arithmetic.                                                         *)
(***************************************************************************)
RECURSIVE BitXor(_, _, _)
BitXor(a, b, n) ==
    IF n = 0 THEN 0
    ELSE (((a % 2) + (b % 2)) % 2) + 2 * BitXor(a \div 2, b \div 2, n - 1)

RECURSIVE BitAnd(_, _, _)
BitAnd(a, b, n) ==
    IF n = 0 THEN 0
    ELSE ((a % 2) * (b % 2)) + 2 * BitAnd(a \div 2, b \div 2, n - 1)

\* ^ and & on 4-bit digits, tabulated once
XorNibble == [a \in 0..15 |-> [b \in 0..15 |-> BitXor(a, b, 4)]]
AndNibble == [a \in 0..15 |-> [b \in 0..15 |-> BitAnd(a, b, 4)]]

\* ^ and & on bytes, from the 4-bit tables
XorByte == [a \in 0..255 |-> [b \in 0..255 |->
              16 * XorNibble[a \div 16][b \div 16] + XorNibble[(a % 16)][(b % 16)]]]
AndByte == [a \in 0..255 |-> [b \in 0..255 |->
              16 * AndNibble[a \div 16][b \div 16] + AndNibble[(a % 16)][(b % 16)]]]

Xor16(a, b) == 256 * XorByte[a \div 256][b \div 256] + XorByte[a % 256][b % 256]
And16(a, b) == 256 * AndByte[a \div 256][b \div 256] + AndByte[a % 256][b % 256]

\* u32 ^, &, !
xor(x, y) == <<Xor16(x[1], y[1]), Xor16(x[2], y[2])>>
and(x, y) == <<And16(x[1], y[1]), And16(x[2], y[2])>>
not(x) == <<65535 - x[1], 65535 - x[2]>>

\* u32::wrapping_add
wrapping_add(x, y) ==
    LET lo == x[2] + y[2]
    IN  <<(x[1] + y[1] + (lo \div 65536)) % 65536, lo % 65536>>

\* u32::rotate_left, 0 <= n < 32
rotate_left(x, n) ==
    LET h == IF n >= 16 THEN x[2] ELSE x[1]
        l == IF n >= 16 THEN x[1] ELSE x[2]
        k == n % 16
    IN  <<((h * 2^k) % 65536) + (l \div 2^(16 - k)),
          ((l * 2^k) % 65536) + (h \div 2^(16 - k))>>

\* u32::rotate_right, 0 < n < 32
rotate_right(x, n) == rotate_left(x, 32 - n)

\* u32 >>, 0 < n < 16
shr(x, n) == <<x[1] \div 2^n, (x[2] \div 2^n) + ((x[1] % 2^n) * 2^(16 - n))>>

\* u32::from_be_bytes on the 4-byte chunk of bytes that starts at source index o
from_be_bytes(bytes, o) ==
    <<256 * bytes[o + 1] + bytes[o + 2], 256 * bytes[o + 3] + bytes[o + 4]>>

\* bytes.chunks_exact(WORD_SIZE_BYTES) read as big-endian words
block_words(bytes) == [i \in 1..(Len(bytes) \div 4) |-> from_be_bytes(bytes, 4 * (i - 1))]

(***************************************************************************)
(* mod sha1                                                                *)
(***************************************************************************)
sha1_WORDS_SCHEDULE_SIZE == 80
WORD_SIZE_BYTES == 4

sha1_K == << <<23170, 31129>>, <<28377, 60321>>, <<36635, 48348>>, <<51810, 49622>> >>

sha1_INITIAL ==
    << <<26437, 8961>>, <<61389, 43913>>, <<39098, 56574>>, <<4146, 21622>>,
       <<50130, 57840>> >>

\* a plausible slip: the complement of x is dropped
ch_without_complement(x, y, z) == xor(and(x, y), and(x, z))

ch(x, y, z) == xor(and(x, y), and(not(x), z))

parity(x, y, z) == xor(xor(x, y), z)

maj(x, y, z) == xor(xor(and(x, y), and(x, z)), and(y, z))

inner_function(iteration, variable1, variable2, variable3) ==
    IF iteration <= 19 THEN ch(variable1, variable2, variable3)
    ELSE IF iteration <= 39 THEN parity(variable1, variable2, variable3)
    ELSE IF iteration <= 59 THEN maj(variable1, variable2, variable3)
    ELSE parity(variable1, variable2, variable3)

inner_k(iteration) ==
    IF iteration <= 19 THEN sha1_K[1]
    ELSE IF iteration <= 39 THEN sha1_K[2]
    ELSE IF iteration <= 59 THEN sha1_K[3]
    ELSE sha1_K[4]

\* the loop `for i in 16..WORDS_SCHEDULE_SIZE`; words holds source words[0..i).
\* Each pass is evaluated before the next one starts (the test on Len).
RECURSIVE sha1_schedule(_, _)
sha1_schedule(words, i) ==
    IF i >= sha1_WORDS_SCHEDULE_SIZE THEN words
    ELSE LET word == xor(xor(xor(words[i + 1 - 3], words[i + 1 - 8]),
                             words[i + 1 - 14]), words[i + 1 - 16])
             next == Append(words, rotate_left(word, 1))
         IN  IF Len(next) = i + 1 THEN sha1_schedule(next, i + 1) ELSE next

\* one pass of the loop `for (i, &word) in words.iter().enumerate()`
sha1_round(v, i, word) ==
    LET tmp == wrapping_add(wrapping_add(wrapping_add(wrapping_add(
                   rotate_left(v[1], 5), inner_function(i, v[2], v[3], v[4])),
                   v[5]), inner_k(i)), word)
    IN  <<tmp, v[1], rotate_left(v[2], 30), v[3], v[4]>>

RECURSIVE sha1_rounds(_, _, _)
sha1_rounds(v, words, i) ==
    IF i >= Len(words) THEN v
    ELSE LET next == sha1_round(v, i, words[i + 1])
         IN  IF Len(next) = Len(v) THEN sha1_rounds(next, words, i + 1) ELSE next

update_hash_variables(variables, hash_variables) ==
    [j \in 1..Len(hash_variables) |-> wrapping_add(variables[j], hash_variables[j])]

sha1_process_block(bytes, hash_variables) ==
    LET words == sha1_schedule(block_words(bytes), 16)
    IN  update_hash_variables(sha1_rounds(hash_variables, words, 0), hash_variables)

(***************************************************************************)
(* mod sha256                                                              *)
(***************************************************************************)
sha256_WORDS_SCHEDULE_SIZE == 64

sha256_K == <<
    <<17034, 12184>>, <<28983, 17553>>, <<46528, 64463>>, <<59829, 56229>>,
    <<14678, 49755>>, <<23025, 4593>>, <<37439, 33444>>, <<43804, 24277>>,
    <<55303, 43672>>, <<4739, 23297>>, <<9265, 34238>>, <<21772, 32195>>,
    <<29374, 23924>>, <<32990, 45566>>, <<39900, 1703>>, <<49563, 61812>>,
    <<58523, 27073>>, <<61374, 18310>>, <<4033, 40390>>, <<9228, 41420>>,
    <<11753, 11375>>, <<19060, 33962>>, <<23728, 43484>>, <<30457, 35034>>,
    <<38974, 20818>>, <<43057, 50797>>, <<45059, 10184>>, <<48985, 32711>>,
    <<50912, 3059>>, <<54695, 37191>>, <<1738, 25425>>, <<5161, 10599>>,
    <<10167, 2693>>, <<11803, 8504>>, <<19756, 28156>>, <<21304, 3347>>,
    <<25866, 29524>>, <<30314, 2747>>, <<33218, 51502>>, <<37490, 11397>>,
    <<41663, 59553>>, <<43034, 26187>>, <<49739, 35696>>, <<51052, 20899>>,
    <<53650, 59417>>, <<54937, 1572>>, <<62478, 13701>>, <<4202, 41072>>,
    <<6564, 49430>>, <<7735, 27656>>, <<10056, 30540>>, <<13488, 48309>>,
    <<14620, 3251>>, <<20184, 43594>>, <<23452, 51791>>, <<26670, 28659>>,
    <<29839, 33518>>, <<30885, 25455>>, <<33992, 30740>>, <<36039, 520>>,
    <<37054, 65530>>, <<42064, 27883>>, <<48889, 41975>>, <<50801, 30962>> >>

sha256_INITIAL ==
    << <<27145, 58983>>, <<47975, 44677>>, <<15470, 62322>>, <<42319, 62778>>,
       <<20750, 21119>>, <<39685, 26764>>, <<8067, 55723>>, <<23520, 52505>> >>

lsigma0(x) == xor(xor(rotate_right(x, 7), rotate_right(x, 18)), shr(x, 3))

lsigma1(x) == xor(xor(rotate_right(x, 17), rotate_right(x, 19)), shr(x, 10))

csigma0(x) == xor(xor(rotate_right(x, 2), rotate_right(x, 13)), rotate_right(x, 22))

csigma1(x) == xor(xor(rotate_right(x, 6), rotate_right(x, 11)), rotate_right(x, 25))

RECURSIVE sha256_schedule(_, _)
sha256_schedule(words, i) ==
    IF i >= sha256_WORDS_SCHEDULE_SIZE THEN words
    ELSE LET next == Append(words,
                         wrapping_add(wrapping_add(wrapping_add(
                             lsigma1(words[i + 1 - 2]), words[i + 1 - 7]),
                             lsigma0(words[i + 1 - 15])), words[i + 1 - 16]))
         IN  IF Len(next) = i + 1 THEN sha256_schedule(next, i + 1) ELSE next

sha256_round(v, i, word) ==
    LET tmp1 == wrapping_add(wrapping_add(wrapping_add(wrapping_add(
                    v[8], csigma1(v[5])), ch(v[5], v[6], v[7])),
                    sha256_K[i + 1]), word)
        tmp2 == wrapping_add(csigma0(v[1]), maj(v[1], v[2], v[3]))
    IN  <<wrapping_add(tmp1, tmp2), v[1], v[2], v[3],
          wrapping_add(v[4], tmp1), v[5], v[6], v[7]>>

RECURSIVE sha256_rounds(_, _, _)
sha256_rounds(v, words, i) ==
    IF i >= Len(words) THEN v
    ELSE LET next == sha256_round(v, i, words[i + 1])
         IN  IF Len(next) = Len(v) THEN sha256_rounds(next, words, i + 1) ELSE next

sha256_process_block(bytes, hash_variables) ==
    LET words == sha256_schedule(block_words(bytes), 16)
    IN  update_hash_variables(sha256_rounds(hash_variables, words, 0), hash_variables)

(***************************************************************************)
(* write!(&mut s, "{:08x}", w) for every word of the state                 *)
(***************************************************************************)
HexDigit == <<"0", "1", "2", "3", "4", "5", "6", "7",
              "8", "9", "a", "b", "c", "d", "e", "f">>

Hex16(h) ==
    HexDigit[(h \div 4096) + 1] \o HexDigit[((h \div 256) % 16) + 1]
        \o HexDigit[((h \div 16) % 16) + 1] \o HexDigit[(h % 16) + 1]

format_08x(w) == Hex16(w[1]) \o Hex16(w[2])

RECURSIVE render(_, _)
render(hash_variables, j) ==
    IF j > Len(hash_variables) THEN ""
    ELSE format_08x(hash_variables[j]) \o render(hash_variables, j + 1)

(***************************************************************************)
(* mod sha_common                                                          *)
(***************************************************************************)
SHA == {"SHA1", "SHA224", "SHA256", "SHA384", "SHA512", "SHA512_224", "SHA512_256"}

\* size_of::<usize>() on a 64-bit target: the length of usize::to_be_bytes()
USIZE_BYTES == 8

PADDING_PARAMETERS ==
    << [remainder |-> 448 \div 8, block_size |-> 512 \div 8, length_size |-> 64 \div 8],
       [remainder |-> 896 \div 8, block_size |-> 1024 \div 8, length_size |-> 128 \div 8] >>

\* usize::to_be_bytes, as k bytes
RECURSIVE to_be_bytes(_, _)
to_be_bytes(n, k) ==
    IF k = 0 THEN <<>> ELSE Append(to_be_bytes(n \div 256, k - 1), n % 256)

\* A helper either returns the mutated slice or panics (index out of range,
\* arithmetic overflow); a panic aborts the computation.
Returned(bytes) == [panicked |-> FALSE, bytes |-> bytes]
Panicked(bytes) == [panicked |-> TRUE, bytes |-> bytes]

\* bytes[*buffer_size] = 1u8 << 7; the caller advances buffer_size by one
include_separator(bytes, buffer_size) ==
    IF Len(bytes) = buffer_size \/ buffer_size + 1 > Len(bytes)
    THEN Panicked(bytes)
    ELSE Returned([bytes EXCEPT ![buffer_size + 1] = 128])

\* for i in (0..length_size).rev() { bytes[len - 1 - i] = length[length.len() - 1 - i] }
\* The first pass has i = length_size - 1: the index into length underflows when
\* length_size exceeds the 8 bytes of a usize, the index into bytes when it
\* exceeds the slice; either way the first pass panics before any write.
include_length(bytes, message_length, length_size) ==
    LET length == to_be_bytes(message_length, USIZE_BYTES)
    IN  IF length_size > Len(length) \/ length_size > Len(bytes)
        THEN Panicked(bytes)
        ELSE Returned([i \in 1..Len(bytes) |->
                 IF i > Len(bytes) - length_size
                 THEN length[Len(length) - (Len(bytes) - i)]
                 ELSE bytes[i]])

\* bytes[buffer_size..padding_end].fill(0u8)
include_padding(bytes, buffer_size, padding_end) ==
    IF buffer_size > padding_end \/ padding_end > Len(bytes)
    THEN Panicked(bytes)
    ELSE Returned([i \in 1..Len(bytes) |->
             IF i > buffer_size /\ i <= padding_end THEN 0 ELSE bytes[i]])

PadResult(status, bytes) == [status |-> status, panicked |-> FALSE, bytes |-> bytes]
PadPanic(bytes) == [status |-> 255, panicked |-> TRUE, bytes |-> bytes]

\* a plausible slip in pad_input: the room test is off by one
pad_input_off_by_one(bytes, buffer_size, message_length, algorithm, separator) ==
    LET parameters == IF algorithm \in {"SHA1", "SHA224", "SHA256"}
                      THEN PADDING_PARAMETERS[1] ELSE PADDING_PARAMETERS[2]
        buffer_size_ == IF separator THEN buffer_size + 1 ELSE buffer_size
        sep == IF separator THEN include_separator(bytes, buffer_size) ELSE Returned(bytes)
    IN  IF Len(bytes) = buffer_size THEN PadResult(0, bytes)
        ELSE IF sep.panicked THEN PadPanic(sep.bytes)
        ELSE IF separator /\ Len(bytes) - buffer_size_ < parameters.length_size - 1
        THEN PadResult(1, sep.bytes)
        ELSE LET len == include_length(sep.bytes, message_length, parameters.length_size)
                 pad == include_padding(len.bytes, buffer_size_,
                                        Len(bytes) - parameters.length_size)
             IN  IF len.panicked THEN PadPanic(len.bytes)
                 ELSE IF pad.panicked THEN PadPanic(pad.bytes)
                 ELSE PadResult(2, pad.bytes)

pad_input(bytes, buffer_size, message_length, algorithm, separator) ==
    LET parameters == IF algorithm \in {"SHA1", "SHA224", "SHA256"}
                      THEN PADDING_PARAMETERS[1] ELSE PADDING_PARAMETERS[2]
        buffer_size_ == IF separator THEN buffer_size + 1 ELSE buffer_size
        sep == IF separator THEN include_separator(bytes, buffer_size) ELSE Returned(bytes)
    IN  IF Len(bytes) = buffer_size THEN PadResult(0, bytes)
        ELSE IF sep.panicked THEN PadPanic(sep.bytes)
        ELSE IF separator /\ Len(bytes) - buffer_size_ < parameters.length_size
        THEN PadResult(1, sep.bytes)
        ELSE LET len == include_length(sep.bytes, message_length, parameters.length_size)
                 pad == include_padding(len.bytes, buffer_size_,
                                        Len(bytes) - parameters.length_size)
             IN  IF len.panicked THEN PadPanic(len.bytes)
                 ELSE IF pad.panicked THEN PadPanic(pad.bytes)
                 ELSE PadResult(2, pad.bytes)

(***************************************************************************)
(* The two hashers (sha1::hash, sha256::hash) differ only in the initial   *)
(* state and the compression function.                                     *)
(***************************************************************************)
BLOCK_SIZE == PADDING_PARAMETERS[1].block_size

INITIAL(hasher) == IF hasher = "sha1" THEN sha1_INITIAL ELSE sha256_INITIAL

process_block(hasher, bytes, hash_variables) ==
    IF hasher = "sha1" THEN sha1_process_block(bytes, hash_variables)
    ELSE sha256_process_block(bytes, hash_variables)

\* iteration < 1usize << 61
below_block_limit(iteration) == (iteration \div 2^30) \div 2^30 < 2

\* let message_length = (block_id * (block_size * WORD_SIZE_BYTES) + buffer_size) * 8
final_message_length(block_id, buffer_size) ==
    (block_id * (PADDING_PARAMETERS[1].block_size * WORD_SIZE_BYTES) + buffer_size) * 8

\* a plausible slip: the extra block is processed only when nothing was written
needs_extra_block_only_when_full(success) == success < 1

\* if success < 2
needs_extra_block(success) == success < 2

\* a plausible slip: the bytes read land at the start of the buffer
read_at_start(buffer, buffer_size, message, position, n) ==
    [i \in 1..Len(buffer) |-> IF i <= n THEN message[position + i] ELSE buffer[i]]

\* reader.read(&mut buffer[buffer_size..]) returning n: the next n bytes of the
\* source are copied to buffer[buffer_size .. buffer_size + n)
read_into(buffer, buffer_size, message, position, n) ==
    [i \in 1..Len(buffer) |->
        IF i > buffer_size /\ i <= buffer_size + n
        THEN message[position + (i - buffer_size)]
        ELSE buffer[i]]

\* what one read call may return: 0 only at exhaustion, else between 1 and the
\* room offered (std::io::Read); Cursor returns the largest of these
read_counts(room, remaining) ==
    IF remaining = 0 THEN {0}
    ELSE 1..(IF room < remaining THEN room ELSE remaining)

(***************************************************************************)
(* pub fn hash: the dispatcher                                             *)
(***************************************************************************)
\* a plausible slip: SHA-224 routed to the SHA-256 hasher
dispatch_sha224_as_sha256(algorithm) ==
    IF algorithm = "SHA1" THEN "sha1"
    ELSE IF algorithm \in {"SHA256", "SHA224"} THEN "sha256"
    ELSE "unimplemented"

\* the two matches on algorithm: which hasher runs, or unimplemented!()
dispatch(algorithm) ==
    IF algorithm \in {"SHA1", "SHA256"}
    THEN (IF algorithm = "SHA1" THEN "sha1" ELSE "sha256")
    ELSE "unimplemented"

(***************************************************************************)
(* Inputs                                                                  *)
(***************************************************************************)
\* "The quick brown fox jumps over the lazy dog"
Fox == <<84, 104, 101, 32, 113, 117, 105, 99, 107, 32, 98, 114, 111, 119, 110, 32,
         102, 111, 120, 32, 106, 117, 109, 112, 115, 32, 111, 118, 101, 114, 32,
         116, 104, 101, 32, 108, 97, 122, 121, 32, 100, 111, 103>>

\* an ASCII message of L bytes, none of them zero, no two equal within a block
Pattern(L) == [i \in 1..L |-> 1 + ((7 * i) % 127)]

Messages == {Pattern(L) : L \in 0..MaxLen} \cup {Fox}

ZeroBlock == [i \in 1..BLOCK_SIZE |-> 0]

\* inputs of pad_input called on its own: a block-sized slice for the family
PadBytes(algorithm, fill) ==
    LET size == IF algorithm \in {"SHA1", "SHA224", "SHA256"}
                THEN PADDING_PARAMETERS[1].block_size
                ELSE PADDING_PARAMETERS[2].block_size
    IN  [i \in 1..size |-> (fill * i) % 256]

PadLengths == {0, 448, MaxPadLength}

PadCalls ==
    UNION { { [bytes |-> PadBytes(a, f), buffer_size |-> b, message_length |-> m,
               algorithm |-> a, separator |-> sp] :
                 b \in 0..Len(PadBytes(a, f)), m \in PadLengths, sp \in BOOLEAN } :
            a \in SHA, f \in {0, 37} }

NoCall == [bytes |-> <<>>, buffer_size |-> 0, message_length |-> 0,
           algorithm |-> "SHA1", separator |-> FALSE]

(***************************************************************************)
(* State                                                                   *)
(***************************************************************************)
VARIABLES
    message,        \* hash: message.as_bytes()
    algorithm,      \* hash: algorithm
    pc,             \* where the program is
    hasher,         \* which module's hash runs: "sha1", "sha256", or "none"
    position,       \* the Cursor's position in message
    buffer,         \* hash: buffer
    buffer_size,    \* hash: buffer_size
    hash_variables, \* hash: hash_variables
    iteration,      \* hash: iteration
    message_length, \* process_final_block: message_length
    success,        \* process_final_block: success
    compressions,   \* number of calls of process_block so far
    res,            \* hash: res, the String the hasher returned
    stdout,         \* what println! wrote
    returned,       \* the value pub fn hash returned to its caller
    outcome,        \* "running", "ok" or the reason of the abort
    pad_call,       \* pad_input called on its own: its arguments
    pad_ret         \* pad_input called on its own: its result

vars == <<message, algorithm, pc, hasher, position, buffer, buffer_size,
          hash_variables, iteration, message_length, success, compressions,
          res, stdout, returned, outcome, pad_call, pad_ret>>

hasher_vars == <<hasher, position, buffer, buffer_size, hash_variables, iteration,
                 message_length, success, compressions, res>>

NoRet == PadResult(0, <<>>)

Idle ==
    /\ hasher = "none"
    /\ position = 0
    /\ buffer = ZeroBlock
    /\ buffer_size = 0
    /\ hash_variables = <<>>
    /\ iteration = 0
    /\ message_length = 0
    /\ success = 0
    /\ compressions = 0
    /\ res = ""
    /\ stdout = ""
    /\ returned = "none"
    /\ outcome = "running"

Init ==
    /\ message \in Messages
    /\ algorithm \in SHA
    /\ pc = "hash"
    /\ Idle
    /\ pad_call = NoCall
    /\ pad_ret = NoRet

(***************************************************************************)
(* pub fn hash(message, algorithm), up to the call of the hasher           *)
(***************************************************************************)
Dispatch ==
    /\ pc = "hash"
    /\ IF dispatch(algorithm) = "unimplemented"
       THEN /\ pc' = "aborted"
            /\ outcome' = "UnsupportedAlgorithm"
            /\ UNCHANGED hasher_vars
       ELSE \* assert!(message.len() < 1usize << 61); Cursor::new; hash(reader) starts:
            \* buffer = [0u8; BLOCK_SIZE], hash_variables = INITIAL, iteration = 0,
            \* and the first pass of the outer loop sets buffer_size = 0
            /\ hasher' = dispatch(algorithm)
            /\ position' = 0
            /\ buffer' = ZeroBlock
            /\ buffer_size' = 0
            /\ hash_variables' = INITIAL(dispatch(algorithm))
            /\ iteration' = 0
            /\ pc' = "read"
            /\ UNCHANGED <<message_length, success, compressions, res, outcome>>
    /\ UNCHANGED <<message, algorithm, stdout, returned, pad_call, pad_ret>>

(***************************************************************************)
(* sha1::hash / sha256::hash                                               *)
(***************************************************************************)
\* one call of reader.read in the inner loop, and the tests that follow it
Read ==
    /\ pc = "read"
    /\ buffer_size < BLOCK_SIZE
    /\ \E n \in read_counts(BLOCK_SIZE - buffer_size, Len(message) - position) :
         IF n = 0
         THEN \* break; buffer_size < BLOCK_SIZE: break
              /\ pc' = "final"
              /\ UNCHANGED <<buffer, buffer_size, position>>
         ELSE /\ buffer' = read_into(buffer, buffer_size, message, position, n)
              /\ buffer_size' = buffer_size + n
              /\ position' = position + n
              /\ pc' = IF buffer_size + n < BLOCK_SIZE THEN "read" ELSE "block"
    /\ UNCHANGED <<message, algorithm, hasher, hash_variables, iteration,
                   message_length, success, compressions, res, stdout, returned,
                   outcome, pad_call, pad_ret>>

\* process_block(&mut buffer, &mut hash_variables); iteration += 1; loop test
ProcessBlock ==
    /\ pc = "block"
    /\ hash_variables' = process_block(hasher, buffer, hash_variables)
    /\ compressions' = compressions + 1
    /\ iteration' = iteration + 1
    /\ IF below_block_limit(iteration + 1)
       THEN buffer_size' = 0 /\ pc' = "read"
       ELSE buffer_size' = buffer_size /\ pc' = "final"
    /\ UNCHANGED <<message, algorithm, hasher, position, buffer, message_length,
                   success, res, stdout, returned, outcome, pad_call, pad_ret>>

\* assert!(iteration < 1usize << 61); process_final_block up to its first pad_input
FinalPad ==
    /\ pc = "final"
    /\ IF ~below_block_limit(iteration)
       THEN /\ pc' = "aborted"
            /\ outcome' = "assertion failed"
            /\ UNCHANGED <<message_length, success, buffer>>
       ELSE LET length == final_message_length(iteration, buffer_size)
                padded == pad_input(buffer, buffer_size, length, "SHA1", TRUE)
            IN  /\ message_length' = length
                /\ success' = padded.status
                /\ buffer' = padded.bytes
                /\ IF padded.panicked
                   THEN pc' = "aborted" /\ outcome' = "panic"
                   ELSE /\ pc' = IF needs_extra_block(padded.status)
                                 THEN "extra" ELSE "last"
                        /\ UNCHANGED outcome
    /\ UNCHANGED <<message, algorithm, hasher, position, buffer_size, hash_variables,
                   iteration, compressions, res, stdout, returned, pad_call, pad_ret>>

\* the body of `if success < 2`
ExtraBlock ==
    /\ pc = "extra"
    /\ hash_variables' = process_block(hasher, buffer, hash_variables)
    /\ compressions' = compressions + 1
    /\ LET padded == pad_input(buffer, 0, iteration, "SHA1", success # 1)
       IN  /\ buffer' = padded.bytes
           /\ IF padded.panicked
              THEN pc' = "aborted" /\ outcome' = "panic"
              ELSE pc' = "last" /\ UNCHANGED outcome
    /\ UNCHANGED <<message, algorithm, hasher, position, buffer_size, iteration,
                   message_length, success, res, stdout, returned, pad_call, pad_ret>>

\* the last process_block of process_final_block
LastBlock ==
    /\ pc = "last"
    /\ hash_variables' = process_block(hasher, buffer, hash_variables)
    /\ compressions' = compressions + 1
    /\ pc' = "render"
    /\ UNCHANGED <<message, algorithm, hasher, position, buffer, buffer_size,
                   iteration, message_length, success, res, stdout, returned,
                   outcome, pad_call, pad_ret>>

\* the hex String the hasher builds and returns to pub fn hash
Render ==
    /\ pc = "render"
    /\ res' = render(hash_variables, 1)
    /\ pc' = "print"
    /\ UNCHANGED <<message, algorithm, hasher, position, buffer, buffer_size,
                   hash_variables, iteration, message_length, success,
                   compressions, stdout, returned, outcome, pad_call, pad_ret>>

\* println!("Hash Result: {res}"), the last expression of a fn returning ()
Println ==
    /\ pc = "print"
    /\ stdout' = "Hash Result: " \o res
    /\ returned' = "()"
    /\ outcome' = "ok"
    /\ pc' = "done"
    /\ UNCHANGED <<message, algorithm, pad_call, pad_ret>>
    /\ UNCHANGED hasher_vars

Next ==
    \/ Dispatch
    \/ Read
    \/ ProcessBlock
    \/ FinalPad
    \/ ExtraBlock
    \/ LastBlock
    \/ Render
    \/ Println

Spec == Init /\ [][Next]_vars

(***************************************************************************)
(* sha_common::pad_input called on its own                                 *)
(***************************************************************************)
PadInit ==
    /\ message = <<>>
    /\ algorithm = "SHA1"
    /\ pc = "pad_input"
    /\ Idle
    /\ pad_call \in PadCalls
    /\ pad_ret = NoRet

PadCall ==
    /\ pc = "pad_input"
    /\ pad_ret' = pad_input(pad_call.bytes, pad_call.buffer_size,
                            pad_call.message_length, pad_call.algorithm,
                            pad_call.separator)
    /\ pc' = "pad_returned"
    /\ UNCHANGED <<message, algorithm, stdout, returned, outcome, pad_call>>
    /\ UNCHANGED hasher_vars

PadNext == PadCall

PadSpec == PadInit /\ [][PadNext]_vars

(***************************************************************************)
(* Properties                                                              *)
(***************************************************************************)
Supported == algorithm \in {"SHA1", "SHA256"}

\* process_final_block has made its first pad_input call
Padded == pc \in {"extra", "last", "render", "print", "done"}

\* the hasher has returned its String
Hashed == pc \in {"render", "print", "done"}

Zeros(n) == [i \in 1..n |-> 0]

\* C1: on entering finalization with `iteration` full blocks compressed and
\* buffer_size bytes in the buffer, the total bit length computed and passed to
\* the first pad_input call is (iteration * 64 + buffer_size) * 8.
C1_TotalBitLength ==
    pc \in {"extra", "last"} =>
        message_length = (iteration * BLOCK_SIZE + buffer_size) * 8

\* C2: on the two-block path (the first pad_input returned 1), the second
\* pad_input writes no separator and the total bit length computed before the
\* first padding attempt: the last compressed block is zeros followed by that
\* length in 8 big-endian bytes.
C2_SecondPadLength ==
    (pc = "last" /\ success = 1) =>
        buffer = Zeros(BLOCK_SIZE - 8) \o to_be_bytes(message_length, 8)

\* C3: when the first pad_input returns 1, the block passed to the compression
\* function is the buffer_size message bytes, then 0x80, then only zero bytes,
\* whatever number of full blocks went through the same buffer before.
C3_SeparatorBlock ==
    (pc = "extra" /\ success = 1) =>
        buffer = SubSeq(message, Len(message) - buffer_size + 1, Len(message))
                     \o <<128>> \o Zeros(BLOCK_SIZE - buffer_size - 1)

\* C4 as stated: for an input of 63 bytes the padding fits in the same block:
\* pad_input returns 2 and finalization runs exactly one compression.
C4_OneBlockAt63 ==
    (Len(message) = BLOCK_SIZE - 1 /\ Padded) =>
        /\ success = 2
        /\ Hashed => compressions = 1

\* C4 as amended: for an input of 63 bytes the separator takes the last byte
\* of the block and the length field does not fit: pad_input returns 1 after
\* writing 0x80 behind the 63 message bytes, and finalization runs exactly two
\* compressions, without aborting.
C4_TwoBlocksAt63 ==
    (Len(message) = BLOCK_SIZE - 1 /\ Supported) =>
        /\ pc # "aborted"
        /\ Padded => success = 1
        /\ pc = "extra" => buffer = message \o <<128>>
        /\ Hashed => compressions = 2

C4_Witness ==
    Len(message) = BLOCK_SIZE - 1 /\ pc = "done" /\ success = 1 /\ compressions = 2

\* the number of blocks FIPS padding gives a message of L bytes
PaddedBlocks(L) == (L \div BLOCK_SIZE) + (IF L % BLOCK_SIZE <= 55 THEN 1 ELSE 2)

C5_BlockCount ==
    Supported =>
        /\ pc # "aborted"
        /\ Len(buffer) = BLOCK_SIZE
        /\ Hashed => compressions = PaddedBlocks(Len(message))

\* the steps still to run: every step of the hasher lowers it
StageRank ==
    [hash |-> 8, block |-> 7, read |-> 6, final |-> 5, extra |-> 4, last |-> 3,
     render |-> 2, print |-> 1, done |-> 0, aborted |-> 0]

Variant == 3 * (Len(message) - position) + StageRank[pc]

\* no step short of "done" is stuck; the three steps that compress a block
\* (pc "block", "extra", "last") have no guard but pc
C5_NotStuck ==
    /\ pc = "hash" => ENABLED Dispatch
    /\ pc = "read" => ENABLED Read
    /\ pc = "final" => ENABLED FinalPad
    /\ pc = "render" => ENABLED Render
    /\ pc = "print" => ENABLED Println
    /\ pc \in {"hash", "read", "block", "final", "extra", "last", "render", "print", "done"}

\* C5: for every input of L bytes under SHA-1 or SHA-256 the hasher terminates
\* (no step is stuck short of "done" and every step lowers a natural-number
\* variant), every compressed block is 64 bytes, and floor(L/64)+1 blocks are
\* compressed when L mod 64 <= 55, floor(L/64)+2 when L mod 64 >= 56.
C5_PaddedLength ==
    /\ [](C5_BlockCount /\ Variant >= 0 /\ (Supported => C5_NotStuck))
    /\ [][Variant' < Variant]_vars

C5_Witness ==
    Len(message) = BLOCK_SIZE - 8 /\ pc = "done" /\ compressions = 2

\* C6: the known vectors: SHA-1 and SHA-256 of the empty string and of the fox
\* sentence complete without abort and render as the published lowercase hex
\* digests, 8 digits per state word (40 and 64 characters).
C6_KnownVectors ==
    (message \in {<<>>, Fox} /\ Supported) =>
        /\ pc # "aborted"
        /\ pc \in {"print", "done"} =>
             /\ Len(res) = 8 * Len(hash_variables)
             /\ Len(res) = IF algorithm = "SHA1" THEN 40 ELSE 64
             /\ (message = <<>> /\ algorithm = "SHA1") =>
                    res = "da39a3ee5e6b4b0d3255bfef95601890afd80709"
             /\ (message = Fox /\ algorithm = "SHA1") =>
                    res = "2fd4e1c67a2d28fced849ee1bb76e7391b93eb12"
             /\ (message = <<>> /\ algorithm = "SHA256") =>
                    res = "e3b0c44298fc1c149afbf4c8996fb92427ae41e4649b934ca495991b7852b855"
             /\ (message = Fox /\ algorithm = "SHA256") =>
                    res = "d7a8fbb307d7809469ca9abcb0082e4f8d5651e46d3cdb762d02d0bf37c9e592"

C6_Witness ==
    /\ pc = "done"
    /\ message = Fox
    /\ algorithm = "SHA256"
    /\ stdout = "Hash Result: d7a8fbb307d7809469ca9abcb0082e4f8d5651e46d3cdb762d02d0bf37c9e592"

\* C7: for any algorithm other than SHA-1 and SHA-256 the dispatcher ends in
\* the unsupported-algorithm abort: no byte is read, no compression runs, no
\* digest is produced or printed.
C7_Unsupported ==
    ~Supported =>
        /\ pc \in {"hash", "aborted"}
        /\ pc = "aborted" => outcome = "UnsupportedAlgorithm"
        /\ hasher = "none"
        /\ position = 0
        /\ compressions = 0
        /\ res = ""
        /\ stdout = ""
        /\ returned = "none"

C7_Witness ==
    algorithm = "SHA384" /\ Len(message) > 0 /\ pc = "aborted"

\* C8: for SHA-1 and SHA-256 the dispatcher returns the digest string to its
\* caller as its result value.
C8_ReturnsDigest ==
    (Supported /\ pc = "done") => returned = res

\* the parameters of the family pad_input selects for an algorithm
Family(a) ==
    IF a \in {"SHA1", "SHA224", "SHA256"}
    THEN PADDING_PARAMETERS[1] ELSE PADDING_PARAMETERS[2]

\* the occupied cursor after the optional separator
Cursor(c) == c.buffer_size + (IF c.separator THEN 1 ELSE 0)

\* C9: for both padding families, pad_input called on a block-sized buffer with
\* room for the length field after the optional separator returns 2 without
\* aborting, with message_length big-endian in the trailing length_size bytes,
\* zeros from the cursor to the length field, and the bytes below the cursor
\* (the separator apart) unchanged.
C9_PaddingComplete ==
    (pc = "pad_returned"
        /\ Cursor(pad_call) <= Len(pad_call.bytes) - Family(pad_call.algorithm).length_size) =>
        LET size == Len(pad_call.bytes)
            length_size == Family(pad_call.algorithm).length_size
        IN  /\ ~pad_ret.panicked
            /\ pad_ret.status = 2
            /\ Len(pad_ret.bytes) = size
            /\ SubSeq(pad_ret.bytes, size - length_size + 1, size)
                   = to_be_bytes(pad_call.message_length, length_size)
            /\ \A i \in (Cursor(pad_call) + 1)..(size - length_size) :
                   pad_ret.bytes[i] = 0
            /\ \A i \in 1..pad_call.buffer_size :
                   pad_ret.bytes[i] = pad_call.bytes[i]
            /\ pad_call.separator => pad_ret.bytes[Cursor(pad_call)] = 128

\* C10: while reading, however the source splits its data over read calls, the
\* block compressed with the counter at k is message bytes [64k, 64k+64), the
\* counter counts the compressed blocks, and finalization is entered with
\* L mod 64 bytes (fewer than 64) of the rest of the message at the start of
\* the buffer, so that pad_input never returns 0.
C10_Reading ==
    /\ pc \in {"read", "block", "final"} =>
         /\ iteration = compressions
         /\ position = BLOCK_SIZE * iteration + buffer_size
         /\ SubSeq(buffer, 1, buffer_size)
                = SubSeq(message, position - buffer_size + 1, position)
    /\ pc = "block" =>
         /\ buffer_size = BLOCK_SIZE
         /\ buffer = SubSeq(message, BLOCK_SIZE * compressions + 1,
                            BLOCK_SIZE * compressions + BLOCK_SIZE)
    /\ pc = "final" =>
         /\ position = Len(message)
         /\ buffer_size = Len(message) % BLOCK_SIZE
         /\ buffer_size < BLOCK_SIZE
         /\ iteration = Len(message) \div BLOCK_SIZE
    /\ Padded => success # 0 /\ iteration = Len(message) \div BLOCK_SIZE

C10_Witness ==
    pc = "final" /\ iteration = 2 /\ buffer_size = 1
=============================================================================
